---- MODULE Spec2Model ----
(***************************************************************************)
(* Model of the payments engine: the per-transaction state machine        *)
(* (StatefulOperation), the account ledger (Client) and the registry      *)
(* (Payments), and the run of main over an input file (parse, the loop,   *)
(* the snapshot).  Amounts are exact decimals in the source; here they    *)
(* are integers counting the smallest decimal unit.                       *)
(***************************************************************************)
EXTENDS Integers, FiniteSets, Sequences, TLC

\* ---------------------------------------------------------------- bounds
NumClients == 2
NumTx == 2
MaxAmount == 1
MaxNegAmount == 1
MaxOps == 5
MaxRows == 3

ClientIds == 1..NumClients
TxIds == 1..NumTx
\* the decoder accepts any decimal, negative and zero included
Amounts == (0 - MaxNegAmount)..MaxAmount
\* the amounts written in the rows of an input file
RowAmounts == 1..MaxAmount

VARIABLES
    clients,          \* Payments.clients : ClientId -> Client (partial map)
    previous,         \* history: Payments.clients before the latest Payments::apply
    lastTransaction,  \* the transaction handed to the latest Payments::apply
    lastResult,       \* what that call returned
    earlier,          \* history: <<client, tx, succeeded>> of every Deposit/Withdrawal
                      \* applied before the latest transaction
    nops,             \* number of transactions applied so far
    stOp,             \* a StatefulOperation on which state_transition is exercised
    stFrom,           \* its state before the latest state_transition call
    stTo,             \* the state requested by the latest call
    stResult,         \* what the latest state_transition call returned
    referenced,       \* history: the client ids Payments::apply was called with
    input,            \* main: the rows of the input file, in file order
    pos,              \* main: index of the next row the reader yields
    applied,          \* main, history: the transactions handed to payments.apply, in order
    stderr,           \* main: the errors written to the diagnostic stream, in order
    stdout,           \* main: the rows payments.serialize wrote
    pc                \* main: "loop" in the for loop, "done" after serialize
                      \* returned Ok, "failed" after main returned an error

vars ==
    <<clients, previous, lastTransaction, lastResult, earlier, nops, stOp, stFrom, stTo,
      stResult, referenced, input, pos, applied, stderr, stdout, pc>>
ledgerVars == <<clients, previous, lastTransaction, lastResult, earlier, nops, referenced>>
stVars == <<stOp, stFrom, stTo, stResult>>
mainVars == <<input, pos, applied, stderr, stdout, pc>>

\* ------------------------------------------------------------ data types
OperationState == {"New", "InDispute", "Resolved", "Chargedback"}

Ok == [kind |-> "Ok"]
NoResult == [kind |-> "None"]

DuplicatedTransaction(id) == [kind |-> "DuplicatedTransaction", id |-> id]
TransactionNotFound(id) == [kind |-> "TransactionNotFound", id |-> id]
InsufficientFunds(id, available, req) ==
    [kind |-> "InsufficientFunds", id |-> id, available |-> available, requested |-> req]
InvalidTransactionStateChange(id, from, to) ==
    [kind |-> "InvalidTransactionStateChange", id |-> id, from |-> from, to |-> to]
AccountLocked(id) == [kind |-> "AccountLocked", id |-> id]
FailedDisputeNotEnoughFunds(id) == [kind |-> "FailedDisputeNotEnoughFunds", id |-> id]
\* the reason string of ParsingFailure is left out
ParsingFailure == [kind |-> "ParsingFailure"]

OperationType ==
    {[type |-> "Deposit", amount |-> a] : a \in Amounts}
    \cup {[type |-> "Withdrawal", amount |-> a] : a \in Amounts}
    \cup {[type |-> "Dispute", amount |-> 0],
          [type |-> "Resolve", amount |-> 0],
          [type |-> "Chargeback", amount |-> 0]}

Operation(id, kind) == [id |-> id, kind |-> kind]
Transaction(op, client_id) == [op |-> op, client_id |-> client_id]

\* ---------------------------------------------- transaction state machine
StatefulOperation_new(id, amount) == [id |-> id, amount |-> amount, state |-> "New"]

\* state_transition with an arm Resolved -> InDispute added (a second dispute)
state_transition_redispute(self, new_state) ==
    LET from == self.state
        to == new_state
    IN  IF from = "New" /\ to = "InDispute"
          THEN [self |-> [self EXCEPT !.state = new_state], result |-> Ok]
        ELSE IF from = "InDispute" /\ to = "Resolved"
          THEN [self |-> [self EXCEPT !.state = new_state], result |-> Ok]
        ELSE IF from = "InDispute" /\ to = "Chargedback"
          THEN [self |-> [self EXCEPT !.state = new_state], result |-> Ok]
        ELSE IF from = "Resolved" /\ to = "InDispute"
          THEN [self |-> [self EXCEPT !.state = new_state], result |-> Ok]
        ELSE IF from = to
          THEN [self |-> [self EXCEPT !.state = from], result |-> Ok]
        ELSE [self |-> self,
              result |-> InvalidTransactionStateChange(self.id, from, to)]

\* returns the record after the call and the call's result
state_transition(self, new_state) ==
    LET from == self.state
        to == new_state
    IN  IF from = "New" /\ to = "InDispute"
          THEN [self |-> [self EXCEPT !.state = new_state], result |-> Ok]
        ELSE IF from = "InDispute" /\ to = "Resolved"
          THEN [self |-> [self EXCEPT !.state = new_state], result |-> Ok]
        ELSE IF from = "InDispute" /\ to = "Chargedback"
          THEN [self |-> [self EXCEPT !.state = new_state], result |-> Ok]
        ELSE IF from = to
          THEN [self |-> [self EXCEPT !.state = from], result |-> Ok]
        ELSE [self |-> self,
              result |-> InvalidTransactionStateChange(self.id, from, to)]

\* ---------------------------------------------------------- account ledger
EmptyOperations == [t \in {} |-> StatefulOperation_new(t, 0)]

Client_new(id) ==
    [id |-> id, operations |-> EmptyOperations,
     available |-> 0, held |-> 0, total |-> 0, locked |-> FALSE]

insert(operations, id, op) ==
    [t \in (DOMAIN operations) \cup {id} |-> IF t = id THEN op ELSE operations[t]]

\* try_deposit without the duplicate check: the record is overwritten
try_deposit_noDuplicateCheck(self, id, amount) ==
    [self |-> [self EXCEPT
                 !.operations = insert(@, id, StatefulOperation_new(id, amount)),
                 !.total = @ + amount,
                 !.available = @ + amount],
     result |-> Ok]

\* try_deposit that forgets `self.available += amount`
try_deposit_noAvailable(self, id, amount) ==
    IF id \in DOMAIN self.operations
      THEN [self |-> self, result |-> DuplicatedTransaction(id)]
      ELSE [self |-> [self EXCEPT
                        !.operations = insert(@, id, StatefulOperation_new(id, amount)),
                        !.total = @ + amount],
            result |-> Ok]

\* try_deposit that looks for the identifier in every account of the registry
try_deposit_registryWideIds(self, id, amount) ==
    IF \E c \in DOMAIN clients : id \in DOMAIN clients[c].operations
      THEN [self |-> self, result |-> DuplicatedTransaction(id)]
      ELSE [self |-> [self EXCEPT
                        !.operations = insert(@, id, StatefulOperation_new(id, amount)),
                        !.total = @ + amount,
                        !.available = @ + amount],
            result |-> Ok]

try_deposit(self, id, amount) ==
    IF id \in DOMAIN self.operations
      THEN [self |-> self, result |-> DuplicatedTransaction(id)]
      ELSE [self |-> [self EXCEPT
                        !.operations = insert(@, id, StatefulOperation_new(id, amount)),
                        !.total = @ + amount,
                        !.available = @ + amount],
            result |-> Ok]

\* try_withdraw that inserts the record before it checks the funds
try_withdraw_insertFirst(self, id, amount) ==
    IF id \in DOMAIN self.operations
      THEN [self |-> self, result |-> DuplicatedTransaction(id)]
    ELSE IF self.available < amount
      THEN [self |-> [self EXCEPT
                        !.operations = insert(@, id, StatefulOperation_new(id, 0 - amount))],
            result |-> InsufficientFunds(id, self.available, amount)]
    ELSE [self |-> [self EXCEPT
                      !.operations = insert(@, id, StatefulOperation_new(id, 0 - amount)),
                      !.total = @ - amount,
                      !.available = @ - amount],
          result |-> Ok]

\* try_withdraw that stores the amount in the record without the minus sign
try_withdraw_unsignedRecord(self, id, amount) ==
    IF id \in DOMAIN self.operations
      THEN [self |-> self, result |-> DuplicatedTransaction(id)]
    ELSE IF self.available < amount
      THEN [self |-> self, result |-> InsufficientFunds(id, self.available, amount)]
    ELSE [self |-> [self EXCEPT
                      !.operations = insert(@, id, StatefulOperation_new(id, amount)),
                      !.total = @ - amount,
                      !.available = @ - amount],
          result |-> Ok]

\* try_withdraw that counts held funds: compares the amount with total
try_withdraw_countsHeld(self, id, amount) ==
    IF id \in DOMAIN self.operations
      THEN [self |-> self, result |-> DuplicatedTransaction(id)]
    ELSE IF self.total < amount
      THEN [self |-> self, result |-> InsufficientFunds(id, self.available, amount)]
    ELSE [self |-> [self EXCEPT
                      !.operations = insert(@, id, StatefulOperation_new(id, 0 - amount)),
                      !.total = @ - amount,
                      !.available = @ - amount],
          result |-> Ok]

try_withdraw(self, id, amount) ==
    IF id \in DOMAIN self.operations
      THEN [self |-> self, result |-> DuplicatedTransaction(id)]
    ELSE IF self.available < amount
      THEN [self |-> self, result |-> InsufficientFunds(id, self.available, amount)]
    ELSE [self |-> [self EXCEPT
                      !.operations = insert(@, id, StatefulOperation_new(id, 0 - amount)),
                      !.total = @ - amount,
                      !.available = @ - amount],
          result |-> Ok]

\* try_dispute without the `self.available < op.amount` check
try_dispute_noFundsCheck(self, id) ==
    IF id \in DOMAIN self.operations
      THEN LET op == self.operations[id]
               tr == state_transition(op, "InDispute")
           IN  IF tr.result # Ok
                 THEN [self |-> self, result |-> tr.result]
               ELSE [self |-> [self EXCEPT
                                 !.operations[id] = tr.self,
                                 !.available = @ - op.amount,
                                 !.held = @ + op.amount],
                     result |-> Ok]
      ELSE [self |-> self, result |-> TransactionNotFound(id)]

\* try_dispute that tries the state transition before it checks the funds
try_dispute_stateFirst(self, id) ==
    IF id \in DOMAIN self.operations
      THEN LET op == self.operations[id]
               tr == state_transition(op, "InDispute")
           IN  IF tr.result # Ok
                 THEN [self |-> self, result |-> tr.result]
               ELSE IF self.available < op.amount
                 THEN [self |-> self, result |-> FailedDisputeNotEnoughFunds(id)]
               ELSE [self |-> [self EXCEPT
                                 !.operations[id] = tr.self,
                                 !.available = @ - op.amount,
                                 !.held = @ + op.amount],
                     result |-> Ok]
      ELSE [self |-> self, result |-> TransactionNotFound(id)]

\* try_dispute that takes the amount from available without holding it
try_dispute_noHold(self, id) ==
    IF id \in DOMAIN self.operations
      THEN LET op == self.operations[id]
               tr == state_transition(op, "InDispute")
           IN  IF self.available < op.amount
                 THEN [self |-> self, result |-> FailedDisputeNotEnoughFunds(id)]
               ELSE IF tr.result # Ok
                 THEN [self |-> self, result |-> tr.result]
               ELSE [self |-> [self EXCEPT
                                 !.operations[id] = tr.self,
                                 !.available = @ - op.amount],
                     result |-> Ok]
      ELSE [self |-> self, result |-> TransactionNotFound(id)]

try_dispute(self, id) ==
    IF id \in DOMAIN self.operations
      THEN LET op == self.operations[id]
               tr == state_transition(op, "InDispute")
           IN  IF self.available < op.amount
                 THEN [self |-> self, result |-> FailedDisputeNotEnoughFunds(id)]
               ELSE IF tr.result # Ok
                 THEN [self |-> self, result |-> tr.result]
               ELSE [self |-> [self EXCEPT
                                 !.operations[id] = tr.self,
                                 !.available = @ - op.amount,
                                 !.held = @ + op.amount],
                     result |-> Ok]
      ELSE [self |-> self, result |-> TransactionNotFound(id)]

\* try_resolve that drops the record it resolved from the account
try_resolve_removesRecord(self, id) ==
    IF id \in DOMAIN self.operations
      THEN LET op == self.operations[id]
               tr == state_transition(op, "Resolved")
           IN  IF tr.result # Ok
                 THEN [self |-> self, result |-> tr.result]
               ELSE [self |-> [self EXCEPT
                                 !.operations = [t \in (DOMAIN @) \ {id} |-> @[t]],
                                 !.available = @ + op.amount,
                                 !.held = @ - op.amount],
                     result |-> Ok]
      ELSE [self |-> self, result |-> TransactionNotFound(id)]

\* try_resolve that releases the amount to available and keeps it held
try_resolve_keepsHeld(self, id) ==
    IF id \in DOMAIN self.operations
      THEN LET op == self.operations[id]
               tr == state_transition(op, "Resolved")
           IN  IF tr.result # Ok
                 THEN [self |-> self, result |-> tr.result]
               ELSE [self |-> [self EXCEPT
                                 !.operations[id] = tr.self,
                                 !.available = @ + op.amount],
                     result |-> Ok]
      ELSE [self |-> self, result |-> TransactionNotFound(id)]

try_resolve(self, id) ==
    IF id \in DOMAIN self.operations
      THEN LET op == self.operations[id]
               tr == state_transition(op, "Resolved")
           IN  IF tr.result # Ok
                 THEN [self |-> self, result |-> tr.result]
               ELSE [self |-> [self EXCEPT
                                 !.operations[id] = tr.self,
                                 !.available = @ + op.amount,
                                 !.held = @ - op.amount],
                     result |-> Ok]
      ELSE [self |-> self, result |-> TransactionNotFound(id)]

\* try_chargeback that forgets `self.total -= op.amount`
try_chargeback_noTotal(self, id) ==
    IF id \in DOMAIN self.operations
      THEN LET op == self.operations[id]
               tr == state_transition(op, "Chargedback")
           IN  IF tr.result # Ok
                 THEN [self |-> self, result |-> tr.result]
               ELSE [self |-> [self EXCEPT
                                 !.operations[id] = tr.self,
                                 !.held = @ - op.amount,
                                 !.locked = TRUE],
                     result |-> Ok]
      ELSE [self |-> self, result |-> TransactionNotFound(id)]

\* try_chargeback that sets `self.locked = true` before the state transition
try_chargeback_locksFirst(self, id) ==
    IF id \in DOMAIN self.operations
      THEN LET op == self.operations[id]
               tr == state_transition(op, "Chargedback")
           IN  IF tr.result # Ok
                 THEN [self |-> [self EXCEPT !.locked = TRUE], result |-> tr.result]
               ELSE [self |-> [self EXCEPT
                                 !.operations[id] = tr.self,
                                 !.held = @ - op.amount,
                                 !.total = @ - op.amount,
                                 !.locked = TRUE],
                     result |-> Ok]
      ELSE [self |-> self, result |-> TransactionNotFound(id)]

\* try_chargeback that forgets `self.locked = true`
try_chargeback_noLock(self, id) ==
    IF id \in DOMAIN self.operations
      THEN LET op == self.operations[id]
               tr == state_transition(op, "Chargedback")
           IN  IF tr.result # Ok
                 THEN [self |-> self, result |-> tr.result]
               ELSE [self |-> [self EXCEPT
                                 !.operations[id] = tr.self,
                                 !.held = @ - op.amount,
                                 !.total = @ - op.amount],
                     result |-> Ok]
      ELSE [self |-> self, result |-> TransactionNotFound(id)]

try_chargeback(self, id) ==
    IF id \in DOMAIN self.operations
      THEN LET op == self.operations[id]
               tr == state_transition(op, "Chargedback")
           IN  IF tr.result # Ok
                 THEN [self |-> self, result |-> tr.result]
               ELSE [self |-> [self EXCEPT
                                 !.operations[id] = tr.self,
                                 !.held = @ - op.amount,
                                 !.total = @ - op.amount,
                                 !.locked = TRUE],
                     result |-> Ok]
      ELSE [self |-> self, result |-> TransactionNotFound(id)]

\* Client::apply without the `if self.locked` pre-check
Client_apply_noLockCheck(self, op) ==
    IF op.kind.type = "Deposit" THEN try_deposit(self, op.id, op.kind.amount)
    ELSE IF op.kind.type = "Withdrawal" THEN try_withdraw(self, op.id, op.kind.amount)
    ELSE IF op.kind.type = "Dispute" THEN try_dispute(self, op.id)
    ELSE IF op.kind.type = "Resolve" THEN try_resolve(self, op.id)
    ELSE try_chargeback(self, op.id)

Client_apply(self, op) ==
    IF self.locked
      THEN [self |-> self, result |-> AccountLocked(op.id)]
    ELSE IF op.kind.type = "Deposit" THEN try_deposit(self, op.id, op.kind.amount)
    ELSE IF op.kind.type = "Withdrawal" THEN try_withdraw(self, op.id, op.kind.amount)
    ELSE IF op.kind.type = "Dispute" THEN try_dispute(self, op.id)
    ELSE IF op.kind.type = "Resolve" THEN try_resolve(self, op.id)
    ELSE try_chargeback(self, op.id)

\* ---------------------------------------------------------------- registry
\* an insertion that starts a new map holding the new client alone
or_insert_dropsOthers(cs, client_id) ==
    IF client_id \in DOMAIN cs
      THEN cs
      ELSE [c \in {client_id} |-> Client_new(client_id)]

\* clients.entry(client_id).or_insert_with(|| Client::new(client_id))
or_insert(cs, client_id) ==
    IF client_id \in DOMAIN cs
      THEN cs
      ELSE [c \in (DOMAIN cs) \cup {client_id} |->
              IF c = client_id THEN Client_new(client_id) ELSE cs[c]]

\* Payments::apply that keeps a new account only when the operation succeeds
Payments_apply_createOnSuccess(client_id, id, type, amount) ==
    /\ nops < MaxOps
    /\ LET transaction == Transaction(Operation(id, [type |-> type, amount |-> amount]),
                                      client_id)
           entered == or_insert(clients, transaction.client_id)
           r == Client_apply(entered[transaction.client_id], transaction.op)
       IN  /\ clients' = IF r.result = Ok
                            THEN [entered EXCEPT ![transaction.client_id] = r.self]
                            ELSE clients
           /\ lastResult' = r.result
           /\ lastTransaction' = transaction
    /\ previous' = clients
    /\ earlier' = IF lastTransaction.op.kind.type \in {"Deposit", "Withdrawal"}
                    THEN earlier \cup {<<lastTransaction.client_id, lastTransaction.op.id,
                                          lastResult = Ok>>}
                    ELSE earlier
    /\ nops' = nops + 1
    /\ referenced' = referenced \cup {client_id}
    /\ UNCHANGED stVars

\* the transaction arrives as its parts: client_id, op.id and op.kind (type, amount)
Payments_apply(client_id, id, type, amount) ==
    /\ nops < MaxOps
    /\ LET transaction == Transaction(Operation(id, [type |-> type, amount |-> amount]),
                                      client_id)
           entered == or_insert(clients, transaction.client_id)
           r == Client_apply(entered[transaction.client_id], transaction.op)
       IN  /\ clients' = [entered EXCEPT ![transaction.client_id] = r.self]
           /\ lastResult' = r.result
           /\ lastTransaction' = transaction
    /\ previous' = clients
    /\ earlier' = IF lastTransaction.op.kind.type \in {"Deposit", "Withdrawal"}
                    THEN earlier \cup {<<lastTransaction.client_id, lastTransaction.op.id,
                                          lastResult = Ok>>}
                    ELSE earlier
    /\ nops' = nops + 1
    /\ referenced' = referenced \cup {client_id}
    /\ UNCHANGED stVars

Deposit(c, id, amount) == Payments_apply(c, id, "Deposit", amount) /\ UNCHANGED mainVars
Withdrawal(c, id, amount) == Payments_apply(c, id, "Withdrawal", amount) /\ UNCHANGED mainVars
Dispute(c, id) == Payments_apply(c, id, "Dispute", 0) /\ UNCHANGED mainVars
Resolve(c, id) == Payments_apply(c, id, "Resolve", 0) /\ UNCHANGED mainVars
Chargeback(c, id) == Payments_apply(c, id, "Chargeback", 0) /\ UNCHANGED mainVars

\* Payments::apply that rejects a Deposit whose identifier any account holds
Payments_apply_to_sharedIds(cs, transaction) ==
    LET entered == or_insert(cs, transaction.client_id)
        r == Client_apply(entered[transaction.client_id], transaction.op)
    IN  IF /\ transaction.op.kind.type = "Deposit"
           /\ \E c \in DOMAIN cs : transaction.op.id \in DOMAIN cs[c].operations
          THEN [clients |-> entered, result |-> DuplicatedTransaction(transaction.op.id)]
          ELSE [clients |-> [entered EXCEPT ![transaction.client_id] = r.self],
                result |-> r.result]

\* Payments::apply as a function: the registry after the call and what the
\* call returns
Payments_apply_to(cs, transaction) ==
    LET entered == or_insert(cs, transaction.client_id)
        r == Client_apply(entered[transaction.client_id], transaction.op)
    IN  [clients |-> [entered EXCEPT ![transaction.client_id] = r.self],
         result |-> r.result]

\* main's loop over a stream of transactions, from an empty registry: the
\* registry after the last one and the result of each
RECURSIVE main_loop(_)
main_loop(stream) ==
    IF stream = <<>>
      THEN [clients |-> [c \in {} |-> Client_new(c)], results |-> <<>>]
      ELSE LET before == main_loop(SubSeq(stream, 1, Len(stream) - 1))
               r == Payments_apply_to(before.clients, stream[Len(stream)])
           IN  [clients |-> r.clients, results |-> Append(before.results, r.result)]

NoTransaction == Transaction(Operation(0, [type |-> "None", amount |-> 0]), 0)
NoOperation == StatefulOperation_new(0, 0)

\* main is not running: no input, nothing read, nothing written
NoMain ==
    /\ input = <<>>
    /\ pos = 1
    /\ applied = <<>>
    /\ stderr = <<>>
    /\ stdout = <<>>
    /\ pc = "loop"

Init ==
    /\ clients = [c \in {} |-> Client_new(c)]
    /\ previous = [c \in {} |-> Client_new(c)]
    /\ lastTransaction = NoTransaction
    /\ lastResult = NoResult
    /\ earlier = {}
    /\ nops = 0
    /\ referenced = {}
    /\ stOp = NoOperation
    /\ stFrom = "New"
    /\ stTo = "New"
    /\ stResult = NoResult
    /\ NoMain

Next ==
    \E c \in ClientIds, id \in TxIds :
        \/ \E amount \in Amounts : Deposit(c, id, amount)
        \/ \E amount \in Amounts : Withdrawal(c, id, amount)
        \/ Dispute(c, id)
        \/ Resolve(c, id)
        \/ Chargeback(c, id)

Spec == Init /\ [][Next]_vars

\* ------------------------------------------- one account on its own
\* Client::new(id) followed by Client::apply calls on it, without the registry
TheClient == CHOOSE c \in ClientIds : TRUE

InitClient ==
    /\ clients = [c \in {TheClient} |-> Client_new(c)]
    /\ previous = [c \in {TheClient} |-> Client_new(c)]
    /\ lastTransaction = NoTransaction
    /\ lastResult = NoResult
    /\ earlier = {}
    /\ nops = 0
    /\ referenced = {}
    /\ stOp = NoOperation
    /\ stFrom = "New"
    /\ stTo = "New"
    /\ stResult = NoResult
    /\ NoMain

\* the operation arrives as its parts: op.id and op.kind (type, amount)
ClientApply(id, type, amount) ==
    /\ nops < MaxOps
    /\ LET op == Operation(id, [type |-> type, amount |-> amount])
           r == Client_apply(clients[TheClient], op)
       IN  /\ clients' = [clients EXCEPT ![TheClient] = r.self]
           /\ lastResult' = r.result
           /\ lastTransaction' = Transaction(op, TheClient)
    /\ previous' = clients
    /\ earlier' = IF lastTransaction.op.kind.type \in {"Deposit", "Withdrawal"}
                    THEN earlier \cup {<<lastTransaction.client_id, lastTransaction.op.id,
                                          lastResult = Ok>>}
                    ELSE earlier
    /\ nops' = nops + 1
    /\ UNCHANGED <<referenced, stVars, mainVars>>

ClientDeposit(id, amount) == ClientApply(id, "Deposit", amount)
ClientWithdrawal(id, amount) == ClientApply(id, "Withdrawal", amount)
ClientDispute(id) == ClientApply(id, "Dispute", 0)
ClientResolve(id) == ClientApply(id, "Resolve", 0)
ClientChargeback(id) == ClientApply(id, "Chargeback", 0)

NextClient ==
    \E id \in TxIds :
        \/ \E amount \in Amounts : ClientDeposit(id, amount)
        \/ \E amount \in Amounts : ClientWithdrawal(id, amount)
        \/ ClientDispute(id)
        \/ ClientResolve(id)
        \/ ClientChargeback(id)

SpecClient == InitClient /\ [][NextClient]_vars

\* the same account when every Deposit and Withdrawal carries an amount
\* above zero
PositiveAmounts == {a \in Amounts : a > 0}

NextClientPositive ==
    \E id \in TxIds :
        \/ \E amount \in PositiveAmounts : ClientDeposit(id, amount)
        \/ \E amount \in PositiveAmounts : ClientWithdrawal(id, amount)
        \/ ClientDispute(id)
        \/ ClientResolve(id)
        \/ ClientChargeback(id)

SpecClientPositive == InitClient /\ [][NextClientPositive]_vars

\* ------------------------------------- the state machine on its own
\* every StatefulOperation value, reachable through Client or not
InitTransition ==
    /\ clients = [c \in {} |-> Client_new(c)]
    /\ previous = [c \in {} |-> Client_new(c)]
    /\ lastTransaction = NoTransaction
    /\ lastResult = NoResult
    /\ earlier = {}
    /\ nops = 0
    /\ referenced = {}
    /\ stOp \in [id : TxIds, amount : Amounts, state : OperationState]
    /\ stFrom = stOp.state
    /\ stTo = stOp.state
    /\ stResult = NoResult
    /\ NoMain

StateTransition(new_state) ==
    /\ stFrom' = stOp.state
    /\ stTo' = new_state
    /\ stOp' = state_transition(stOp, new_state).self
    /\ stResult' = state_transition(stOp, new_state).result
    /\ UNCHANGED <<ledgerVars, mainVars>>

NextTransition == \E new_state \in OperationState : StateTransition(new_state)

SpecTransition == InitTransition /\ [][NextTransition]_vars

\* ------------------------------------------------------------- input rows
\* Option<Decimal>: None is the empty set, Some(a) the set {a}
None == {}
Some(a) == {a}

ParsedTransactionKind == {"deposit", "withdrawal", "dispute", "resolve", "chargeback"}

\* the rows the reader can hold: a known type with an amount column that is
\* empty or a decimal, and one row that does not deserialize (unknown type)
Undecodable == [type |-> "transfer", client |-> 1, tx |-> 1, amount |-> None]
Rows ==
    [type : ParsedTransactionKind, client : ClientIds, tx : TxIds,
     amount : {None} \cup {Some(a) : a \in RowAmounts}]
    \cup {Undecodable}

\* the closure of parse: one row to Result<Transaction, Error>
parse(row) ==
    IF row.type \notin ParsedTransactionKind
      THEN ParsingFailure
    ELSE IF row.type = "deposit"
      THEN IF row.amount = None
             THEN ParsingFailure
             ELSE Transaction(Operation(row.tx, [type |-> "Deposit",
                                                 amount |-> CHOOSE a \in row.amount : TRUE]),
                              row.client)
    ELSE IF row.type = "withdrawal"
      THEN IF row.amount = None
             THEN ParsingFailure
             ELSE Transaction(Operation(row.tx, [type |-> "Withdrawal",
                                                 amount |-> CHOOSE a \in row.amount : TRUE]),
                              row.client)
    ELSE IF row.type = "dispute"
      THEN Transaction(Operation(row.tx, [type |-> "Dispute", amount |-> 0]), row.client)
    ELSE IF row.type = "resolve"
      THEN Transaction(Operation(row.tx, [type |-> "Resolve", amount |-> 0]), row.client)
    ELSE Transaction(Operation(row.tx, [type |-> "Chargeback", amount |-> 0]), row.client)

\* ---------------------------------------------------------------- snapshot
\* HashMap::values yields the clients in an order the map chooses: any
\* sequence that holds every key once
ValuesOrders(cs) ==
    {order \in [1..Cardinality(DOMAIN cs) -> DOMAIN cs] :
        \A i, j \in DOMAIN order : order[i] = order[j] => i = j}

values(cs, order) == [i \in DOMAIN order |-> cs[order[i]]]

\* sorted_by_key that leaves the sequence as it came
sorted_by_key_asYielded(s) == s

\* itertools sorted_by_key(|c| c.id): a stable sort, here by insertion
RECURSIVE sorted_by_key(_)
sorted_by_key(s) ==
    IF s = <<>>
      THEN <<>>
      ELSE LET c == s[Len(s)]
               sorted == sorted_by_key(SubSeq(s, 1, Len(s) - 1))
               le(x) == x.id <= c.id
               gt(x) == x.id > c.id
           IN  SelectSeq(sorted, le) \o <<c>> \o SelectSeq(sorted, gt)

\* #[derive(Serialize)] on Client: id as "client", operations skipped
Client_serialize(c) ==
    [client |-> c.id, available |-> c.available, held |-> c.held, total |-> c.total,
     locked |-> c.locked]

\* the rows Payments::serialize writes when values() yields the given order
Payments_serialize(cs, order) ==
    LET sorted == sorted_by_key(values(cs, order))
    IN  [i \in DOMAIN sorted |-> Client_serialize(sorted[i])]

\* --------------------------------------------------------------------- main
\* main over one input file. Writes to stdout and stderr succeed.
Streams == UNION {[1..n -> Rows] : n \in 0..MaxRows}

InitMain ==
    /\ clients = [c \in {} |-> Client_new(c)]
    /\ previous = [c \in {} |-> Client_new(c)]
    /\ lastTransaction = NoTransaction
    /\ lastResult = NoResult
    /\ earlier = {}
    /\ nops = 0
    /\ referenced = {}
    /\ stOp = NoOperation
    /\ stFrom = "New"
    /\ stTo = "New"
    /\ stResult = NoResult
    /\ input \in Streams
    /\ pos = 1
    /\ applied = <<>>
    /\ stderr = <<>>
    /\ stdout = <<>>
    /\ pc = "loop"

\* the loop body leaving main when payments.apply returns an error
main_apply_stopsOnError ==
    /\ pc = "loop"
    /\ pos <= Len(input)
    /\ parse(input[pos]) # ParsingFailure
    /\ \E c \in ClientIds, id \in TxIds, type \in {"Deposit", "Withdrawal", "Dispute",
                                                    "Resolve", "Chargeback"},
          amount \in Amounts :
          /\ parse(input[pos]) = Transaction(Operation(id, [type |-> type,
                                                            amount |-> amount]), c)
          /\ Payments_apply(c, id, type, amount)
    /\ applied' = Append(applied, parse(input[pos]))
    /\ stderr' = IF lastResult' # Ok THEN Append(stderr, lastResult') ELSE stderr
    /\ pos' = pos + 1
    /\ pc' = IF lastResult' # Ok THEN "failed" ELSE pc
    /\ UNCHANGED <<input, stdout>>

\* the loop body on a row that parse turns into a transaction:
\* payments.apply(trans), and eprintln! of the error when it fails
main_apply ==
    /\ pc = "loop"
    /\ pos <= Len(input)
    /\ parse(input[pos]) # ParsingFailure
    /\ \E c \in ClientIds, id \in TxIds, type \in {"Deposit", "Withdrawal", "Dispute",
                                                    "Resolve", "Chargeback"},
          amount \in Amounts :
          /\ parse(input[pos]) = Transaction(Operation(id, [type |-> type,
                                                            amount |-> amount]), c)
          /\ Payments_apply(c, id, type, amount)
    /\ applied' = Append(applied, parse(input[pos]))
    /\ stderr' = IF lastResult' # Ok THEN Append(stderr, lastResult') ELSE stderr
    /\ pos' = pos + 1
    /\ UNCHANGED <<input, stdout, pc>>

\* the loop body reporting a row that parse turns into an error and going on
main_parsing_failure_skipsRow ==
    /\ pc = "loop"
    /\ pos <= Len(input)
    /\ parse(input[pos]) = ParsingFailure
    /\ stderr' = Append(stderr, ParsingFailure)
    /\ pos' = pos + 1
    /\ UNCHANGED <<ledgerVars, stVars, input, applied, stdout, pc>>

\* the loop body on a row that parse turns into an error: `trans?` returns
\* the error from main, which the runtime writes to stderr
main_parsing_failure ==
    /\ pc = "loop"
    /\ pos <= Len(input)
    /\ parse(input[pos]) = ParsingFailure
    /\ stderr' = Append(stderr, ParsingFailure)
    /\ pos' = pos + 1
    /\ pc' = "failed"
    /\ UNCHANGED <<ledgerVars, stVars, input, applied, stdout>>

\* the reader has no more rows: payments.serialize(stdout) and return
main_serialize ==
    /\ pc = "loop"
    /\ pos > Len(input)
    /\ \E order \in ValuesOrders(clients) : stdout' = Payments_serialize(clients, order)
    /\ pc' = "done"
    /\ UNCHANGED <<ledgerVars, stVars, input, pos, applied, stderr>>

NextMain ==
    \/ main_apply
    \/ main_parsing_failure
    \/ main_serialize

SpecMain == InitMain /\ [][NextMain]_vars

\* main is sequential code that never waits: while a step of main is
\* possible, main takes it
SpecMainFair == SpecMain /\ WF_vars(NextMain)

\* ------------------------------------------------ vocabulary of the claims
\* In a state reached by Payments::apply: the operation applied, the client
\* Client::apply was called on (after the registry's or_insert) and the same
\* client after the call.
Applied == lastResult # NoResult
StepOp == lastTransaction.op
StepType == lastTransaction.op.kind.type
Before == or_insert(previous, lastTransaction.client_id)[lastTransaction.client_id]
After == clients[lastTransaction.client_id]
Balances(cl) == <<cl.available, cl.held, cl.total>>

\* ---------------------------------------------------------------------- C1
\* C1: in every reachable state every account satisfies
\* total == available + held.
C1_TotalIsAvailablePlusHeld ==
    \A c \in DOMAIN clients :
        clients[c].total = clients[c].available + clients[c].held

\* a chargeback went through on an account that still has available funds
C1_Witness ==
    /\ StepType = "Chargeback"
    /\ lastResult = Ok
    /\ After.available # 0
    /\ After.operations[StepOp.id].state = "Chargedback"
    /\ After.operations[StepOp.id].amount # 0

\* ---------------------------------------------------------------------- C2
\* C2: a successful chargeback locks the account; locked is monotonic, and
\* every operation applied to a locked account fails with
\* AccountLocked(op.id) and leaves the whole account (balances, locked flag,
\* transaction records) as it was.
C2_LockedIsFinal ==
    /\ (StepType = "Chargeback" /\ lastResult = Ok) => After.locked
    /\ \A c \in DOMAIN previous :
          previous[c].locked =>
              /\ c \in DOMAIN clients
              /\ clients[c] = previous[c]
              /\ lastTransaction.client_id = c => lastResult = AccountLocked(StepOp.id)

\* a deposit with a fresh identifier was refused by a locked account
C2_Witness ==
    /\ Applied
    /\ StepType = "Deposit"
    /\ Before.locked
    /\ lastResult = AccountLocked(StepOp.id)
    /\ StepOp.id \notin DOMAIN Before.operations

\* ---------------------------------------------------------------------- C3
\* C3 as stated: a Deposit or Withdrawal whose identifier was carried by an
\* earlier Deposit or Withdrawal applied to the same account (successful or
\* not) fails with DuplicatedTransaction and leaves the balances unchanged.
C3_SecondAlwaysDuplicate ==
    (/\ StepType \in {"Deposit", "Withdrawal"}
     /\ \E ok \in BOOLEAN : <<lastTransaction.client_id, StepOp.id, ok>> \in earlier)
        => /\ lastResult = DuplicatedTransaction(StepOp.id)
           /\ Balances(After) = Balances(Before)

\* C3 amended: when the earlier Deposit or Withdrawal with that identifier
\* succeeded, the later one fails and leaves the balances unchanged; the
\* error is DuplicatedTransaction while the account is unlocked and
\* AccountLocked once it is locked.
C3_SecondFailsAfterSuccess ==
    (/\ StepType \in {"Deposit", "Withdrawal"}
     /\ <<lastTransaction.client_id, StepOp.id, TRUE>> \in earlier)
        => /\ lastResult = IF Before.locked
                             THEN AccountLocked(StepOp.id)
                             ELSE DuplicatedTransaction(StepOp.id)
           /\ Balances(After) = Balances(Before)

\* a withdrawal the funds would cover reuses the identifier of a deposit
C3_Witness ==
    /\ StepType = "Withdrawal"
    /\ <<lastTransaction.client_id, StepOp.id, TRUE>> \in earlier
    /\ lastResult = DuplicatedTransaction(StepOp.id)
    /\ StepOp.kind.amount > 0
    /\ Before.available >= StepOp.kind.amount

\* ---------------------------------------------------------------------- C4
\* C4: over the 16 pairs (from, to), state_transition succeeds on
\* New->InDispute, InDispute->Resolved, InDispute->Chargedback (the record
\* takes the requested state) and on the 4 identity pairs (state unchanged);
\* the other 9 pairs fail with InvalidTransactionStateChange(id, from, to)
\* and leave the state unchanged.
C4_TransitionTable ==
    stResult # NoResult =>
        IF \/ stFrom = "New" /\ stTo = "InDispute"
           \/ stFrom = "InDispute" /\ stTo = "Resolved"
           \/ stFrom = "InDispute" /\ stTo = "Chargedback"
          THEN stResult = Ok /\ stOp.state = stTo
        ELSE IF stFrom = stTo
          THEN stResult = Ok /\ stOp.state = stFrom
        ELSE /\ stResult = [kind |-> "InvalidTransactionStateChange",
                            id |-> stOp.id, from |-> stFrom, to |-> stTo]
             /\ stOp.state = stFrom

\* a second dispute of a resolved record was requested and refused
C4_Witness ==
    /\ stFrom = "Resolved"
    /\ stTo = "InDispute"
    /\ stResult.kind = "InvalidTransactionStateChange"
    /\ stOp.state = "Resolved"

\* ---------------------------------------------------------------------- C5
\* C5: an operation that Client::apply rejects leaves the account exactly as
\* it was before the call: balances, locked flag and every record.
C5_RejectedChangesNothing ==
    (Applied /\ lastResult # Ok) => After = Before

\* a withdrawal was refused for lack of available funds while funds are held
C5_Witness ==
    /\ lastResult.kind = "InsufficientFunds"
    /\ Before.held > 0
    /\ StepOp.id \notin DOMAIN After.operations

\* ---------------------------------------------------------------------- C6
\* C6: a Dispute applied to an existing record that is not in state New
\* fails with the state-transition error and mutates nothing, so that at
\* most one Dispute succeeds per record.  Stated for an unlocked account and
\* for the case where the funds check that precedes the transition passes
\* (available >= signed amount).
C6_DisputeOnlyFromNew ==
    (/\ StepType = "Dispute"
     /\ ~Before.locked
     /\ StepOp.id \in DOMAIN Before.operations
     /\ Before.operations[StepOp.id].state # "New"
     /\ Before.available >= Before.operations[StepOp.id].amount)
        => /\ lastResult = InvalidTransactionStateChange(
                               StepOp.id, Before.operations[StepOp.id].state, "InDispute")
           /\ After = Before

\* ---------------------------------------------------------------------- C7
\* C7: a Dispute, Resolve or Chargeback that does not move the record out of
\* its current lifecycle state leaves available, held and total unchanged.
C7_NoDeltaWithoutMove ==
    (/\ StepType \in {"Dispute", "Resolve", "Chargeback"}
     /\ StepOp.id \in DOMAIN Before.operations
     /\ After.operations[StepOp.id].state = Before.operations[StepOp.id].state)
        => Balances(After) = Balances(Before)

\* ---------------------------------------------------------------------- C8
\* C8: a Resolve applied on an unlocked account to an existing record that is
\* not in state InDispute fails with the state-transition error and leaves
\* balances and record unchanged.
C8_ResolveOnlyFromInDispute ==
    (/\ StepType = "Resolve"
     /\ ~Before.locked
     /\ StepOp.id \in DOMAIN Before.operations
     /\ Before.operations[StepOp.id].state # "InDispute")
        => /\ lastResult = InvalidTransactionStateChange(
                               StepOp.id, Before.operations[StepOp.id].state, "Resolved")
           /\ After = Before

\* ---------------------------------------------------------------------- C9
\* C9: in the state right after a Dispute that returned success, on a deposit
\* record or a withdrawal record, available >= 0.
C9_DisputeKeepsAvailableNonNegative ==
    (StepType = "Dispute" /\ lastResult = Ok) => After.available >= 0

\* a dispute moved the whole available balance to held while the account
\* has another record
C9_Witness ==
    /\ StepType = "Dispute"
    /\ lastResult = Ok
    /\ Before.operations[StepOp.id].state = "New"
    /\ Before.operations[StepOp.id].amount > 0
    /\ After.available = 0
    /\ Cardinality(DOMAIN After.operations) > 1

\* --------------------------------------------------------------------- C10
\* C10: a Deposit(amount) on an unlocked account without a record for the
\* identifier succeeds, creates the record [id, +amount, New], adds amount to
\* total and to available, and leaves held, locked and the other records
\* alone; with a record for the identifier it fails with
\* DuplicatedTransaction.
C10_Deposit ==
    (StepType = "Deposit" /\ ~Before.locked)
        => IF StepOp.id \notin DOMAIN Before.operations
             THEN /\ lastResult = Ok
                  /\ DOMAIN After.operations = DOMAIN Before.operations \cup {StepOp.id}
                  /\ After.operations[StepOp.id] =
                        [id |-> StepOp.id, amount |-> StepOp.kind.amount, state |-> "New"]
                  /\ \A t \in DOMAIN Before.operations :
                        After.operations[t] = Before.operations[t]
                  /\ After.total = Before.total + StepOp.kind.amount
                  /\ After.available = Before.available + StepOp.kind.amount
                  /\ After.held = Before.held
                  /\ After.locked = Before.locked
             ELSE lastResult = DuplicatedTransaction(StepOp.id)

\* a deposit went through on an account that has funds held
C10_Witness ==
    /\ StepType = "Deposit"
    /\ lastResult = Ok
    /\ StepOp.kind.amount > 0
    /\ Before.held > 0
    /\ After.operations[StepOp.id].state = "New"

\* --------------------------------------------------------------------- C11
\* C11: a Withdrawal(amount) on an unlocked account without a record for the
\* identifier fails with InsufficientFunds(id, available, amount) exactly
\* when available < amount, whatever is held; otherwise it succeeds, creates
\* the record [id, -amount, New], takes amount from total and from
\* available, leaves held alone, and available ends at zero or above.
C11_Withdrawal ==
    (/\ StepType = "Withdrawal"
     /\ ~Before.locked
     /\ StepOp.id \notin DOMAIN Before.operations)
        => IF Before.available < StepOp.kind.amount
             THEN /\ lastResult = InsufficientFunds(StepOp.id, Before.available,
                                                    StepOp.kind.amount)
                  /\ After = Before
             ELSE /\ lastResult = Ok
                  /\ DOMAIN After.operations = DOMAIN Before.operations \cup {StepOp.id}
                  /\ After.operations[StepOp.id] =
                        [id |-> StepOp.id, amount |-> 0 - StepOp.kind.amount,
                         state |-> "New"]
                  /\ After.total = Before.total - StepOp.kind.amount
                  /\ After.available = Before.available - StepOp.kind.amount
                  /\ After.held = Before.held
                  /\ After.available >= 0

\* a withdrawal that the total would cover, but not the available balance,
\* failed with insufficient funds
C11_Witness ==
    /\ StepType = "Withdrawal"
    /\ ~Before.locked
    /\ StepOp.id \notin DOMAIN Before.operations
    /\ StepOp.kind.amount > 0
    /\ Before.held > 0
    /\ Before.available < StepOp.kind.amount
    /\ Before.total >= StepOp.kind.amount
    /\ lastResult = InsufficientFunds(StepOp.id, Before.available, StepOp.kind.amount)

\* --------------------------------------------------------------------- C12
\* C12: a Dispute on a record in state New of an unlocked account fails with
\* FailedDisputeNotEnoughFunds and changes nothing when available is below
\* the record's signed amount; otherwise the record becomes InDispute,
\* available goes down and held goes up by the signed amount (a negative
\* amount raises available and lowers held), and total stays.
C12_DisputeOfNew ==
    (/\ StepType = "Dispute"
     /\ ~Before.locked
     /\ StepOp.id \in DOMAIN Before.operations
     /\ Before.operations[StepOp.id].state = "New")
        => LET amount == Before.operations[StepOp.id].amount
           IN  IF Before.available < amount
                 THEN /\ lastResult = FailedDisputeNotEnoughFunds(StepOp.id)
                      /\ After = Before
                 ELSE /\ lastResult = Ok
                      /\ After.operations =
                            [Before.operations EXCEPT ![StepOp.id].state = "InDispute"]
                      /\ After.available = Before.available - amount
                      /\ After.held = Before.held + amount
                      /\ After.total = Before.total
                      /\ After.locked = Before.locked

\* a dispute of a record with a negative signed amount went through:
\* available rose from 0 to 1 and held fell below zero
C12_Witness ==
    /\ StepType = "Dispute"
    /\ lastResult = Ok
    /\ StepOp.id \in DOMAIN Before.operations
    /\ Before.operations[StepOp.id].state = "New"
    /\ Before.operations[StepOp.id].amount < 0
    /\ Before.available = 0
    /\ After.available = 1
    /\ After.held < 0

\* --------------------------------------------------------------------- C13
\* C13: on every reachable unlocked account and for every record of it in
\* state New, when Client::apply(Dispute) succeeds, Client::apply(Resolve) of
\* the same identifier applied right after it succeeds too, leaves the
\* record Resolved and the other records alone, and gives available, held
\* and total the values they had before the Dispute.
C13_ResolveReversesDispute ==
    \A c \in DOMAIN clients :
        \A id \in DOMAIN clients[c].operations :
            LET start == clients[c]
                disputed == Client_apply(start, Operation(id, [type |-> "Dispute",
                                                              amount |-> 0]))
                resolved == Client_apply(disputed.self,
                                         Operation(id, [type |-> "Resolve", amount |-> 0]))
            IN  (/\ ~start.locked
                 /\ start.operations[id].state = "New"
                 /\ disputed.result = Ok)
                    => /\ resolved.result = Ok
                       /\ resolved.self.operations =
                             [start.operations EXCEPT ![id].state = "Resolved"]
                       /\ Balances(resolved.self) = Balances(start)
                       /\ resolved.self.locked = start.locked

\* the third operation on the account is a Resolve that went through on a
\* record in dispute, after one Deposit or Withdrawal of that identifier
\* went through and no other: the three operations were that Deposit, its
\* Dispute and this Resolve, and the balances are those of the deposit again
C13_Witness ==
    /\ nops = 3
    /\ StepType = "Resolve"
    /\ lastResult = Ok
    /\ earlier = {<<lastTransaction.client_id, StepOp.id, TRUE>>}
    /\ Before.operations[StepOp.id].state = "InDispute"
    /\ Balances(Before) = <<0, 1, 1>>
    /\ After.operations[StepOp.id].state = "Resolved"
    /\ Balances(After) = <<1, 0, 1>>

\* --------------------------------------------------------------------- C14
\* C14: a Chargeback on an unlocked account succeeds only on a record in
\* state InDispute; on a record in another state it fails with
\* InvalidTransactionStateChange and changes nothing, the lock included; on
\* success the record becomes Chargedback, held and total go down by the
\* signed amount, available stays and locked becomes true.
C14_Chargeback ==
    /\ (StepType = "Chargeback" /\ lastResult = Ok)
          => /\ StepOp.id \in DOMAIN Before.operations
             /\ Before.operations[StepOp.id].state = "InDispute"
    /\ (/\ StepType = "Chargeback"
         /\ ~Before.locked
         /\ StepOp.id \in DOMAIN Before.operations)
          => LET op == Before.operations[StepOp.id]
             IN  IF op.state = "InDispute"
                   THEN /\ lastResult = Ok
                        /\ After.operations =
                              [Before.operations EXCEPT ![StepOp.id].state = "Chargedback"]
                        /\ After.held = Before.held - op.amount
                        /\ After.total = Before.total - op.amount
                        /\ After.available = Before.available
                        /\ After.locked
                   ELSE /\ lastResult = InvalidTransactionStateChange(
                                            StepOp.id, op.state, "Chargedback")
                        /\ After = Before
                        /\ ~After.locked

\* a chargeback of a disputed record took the held amount out of held and
\* out of total and locked the account, which has a second record
C14_Witness ==
    /\ StepType = "Chargeback"
    /\ lastResult = Ok
    /\ ~Before.locked
    /\ Before.operations[StepOp.id].state = "InDispute"
    /\ Before.operations[StepOp.id].amount = 1
    /\ Before.held = 1
    /\ After.held = 0
    /\ After.total = Before.total - 1
    /\ After.locked
    /\ Cardinality(DOMAIN After.operations) = 2

\* --------------------------------------------------------------------- C15
\* C15: identifiers belong to one account. A Dispute, Resolve or Chargeback
\* on an unlocked account without a record for the identifier fails with
\* TransactionNotFound and changes nothing, whatever the other accounts
\* hold; a Deposit or Withdrawal fails with DuplicatedTransaction only when
\* its own account has a record for the identifier, and on an unlocked
\* account always then.
C15_IdsPerAccount ==
    /\ (/\ StepType \in {"Dispute", "Resolve", "Chargeback"}
         /\ ~Before.locked
         /\ StepOp.id \notin DOMAIN Before.operations)
          => /\ lastResult = TransactionNotFound(StepOp.id)
             /\ After = Before
    /\ (/\ StepType \in {"Deposit", "Withdrawal"}
         /\ ~Before.locked)
          => (lastResult = DuplicatedTransaction(StepOp.id)
                <=> StepOp.id \in DOMAIN Before.operations)
    /\ (/\ Applied
         /\ lastResult = DuplicatedTransaction(StepOp.id))
          => /\ StepType \in {"Deposit", "Withdrawal"}
             /\ StepOp.id \in DOMAIN Before.operations

\* a Dispute names an identifier that another account has a record for and
\* its own account has not, and fails with TransactionNotFound
C15_Witness ==
    /\ StepType = "Dispute"
    /\ ~Before.locked
    /\ StepOp.id \notin DOMAIN Before.operations
    /\ \E c \in DOMAIN previous :
          /\ c # lastTransaction.client_id
          /\ StepOp.id \in DOMAIN previous[c].operations
          /\ previous[c].operations[StepOp.id].state = "New"
          /\ previous[c].available >= previous[c].operations[StepOp.id].amount
    /\ lastResult = TransactionNotFound(StepOp.id)

\* --------------------------------------------------------------------- C16
\* C16: the accounts of the registry are exactly the client ids that
\* Payments::apply was called with; after each call the registry has the
\* account of the call, whatever the call returned; and an account that a
\* failing call created has zero available, held and total, is not
\* locked and has no records.
C16_AccountsAreTheReferencedIds ==
    /\ DOMAIN clients = referenced
    /\ Applied => lastTransaction.client_id \in DOMAIN clients
    /\ (/\ Applied
         /\ lastResult # Ok
         /\ lastTransaction.client_id \notin DOMAIN previous)
          => /\ Balances(After) = <<0, 0, 0>>
             /\ ~After.locked
             /\ DOMAIN After.operations = {}

\* a Resolve that failed is the first operation of its account: the account
\* is in the registry now, empty, next to an account that holds funds
C16_Witness ==
    /\ StepType = "Resolve"
    /\ lastResult = TransactionNotFound(StepOp.id)
    /\ lastTransaction.client_id \notin DOMAIN previous
    /\ lastTransaction.client_id \in DOMAIN clients
    /\ After = Client_new(lastTransaction.client_id)
    /\ \E c \in DOMAIN previous : previous[c].total > 0
    /\ referenced = ClientIds

\* --------------------------------------------------------------------- C17
\* C17: the snapshot main writes has one row for each account of the
\* registry, which are the accounts the applied transactions referenced, and
\* no other row; each row carries its account's balances and lock; the rows
\* are in strictly ascending order of client id, whatever order the map
\* yields the accounts in and whatever account was referenced first.
C17_SnapshotRows ==
    /\ \A order \in ValuesOrders(clients) :
          LET rows == Payments_serialize(clients, order)
          IN  /\ Len(rows) = Cardinality(DOMAIN clients)
              /\ {rows[i].client : i \in DOMAIN rows} = DOMAIN clients
              /\ \A i \in DOMAIN rows : rows[i] = Client_serialize(clients[rows[i].client])
              /\ \A i, j \in DOMAIN rows : i < j => rows[i].client < rows[j].client
    /\ pc = "done"
          => /\ Len(stdout) = Cardinality(referenced)
             /\ {stdout[i].client : i \in DOMAIN stdout} =
                   {applied[i].client_id : i \in DOMAIN applied}
             /\ \A i \in DOMAIN stdout : stdout[i] = Client_serialize(clients[stdout[i].client])
             /\ \A i, j \in DOMAIN stdout : i < j => stdout[i].client < stdout[j].client

\* the snapshot of a run whose first transaction was for the account with
\* the highest id and a later one for a lower id: the lower id is the first
\* row and every referenced account has its row
C17_Witness ==
    /\ pc = "done"
    /\ Len(applied) = 3
    /\ applied[1].client_id = NumClients
    /\ applied[3].client_id < NumClients
    /\ Len(stdout) = 2
    /\ stdout[1].client < stdout[2].client
    /\ stdout[2].client = NumClients
    /\ stdout[2].total > 0

\* --------------------------------------------------------------------- C18
\* C18: on an input whose rows all parse, main hands the transactions to
\* payments.apply one by one in file order, each once, goes on after a
\* transaction the ledger rejected, never returns an error, and in the end
\* has applied all of them and written the snapshot.
WellFormed == \A i \in DOMAIN input : parse(input[i]) # ParsingFailure
Parsed == [i \in DOMAIN input |-> parse(input[i])]

C18_AllAppliedThenSnapshot ==
    /\ [](WellFormed => /\ pc # "failed"
                         /\ pos <= Len(input) + 1
                         /\ applied = SubSeq(Parsed, 1, pos - 1)
                         /\ nops = Len(applied)
                         /\ (pc = "done" => applied = Parsed))
    /\ WellFormed ~> (pc = "done" /\ applied = Parsed)

\* a run over three rows is done: the ledger rejected the first transaction
\* and the second, the third went through, and all three were applied
C18_Witness ==
    /\ pc = "done"
    /\ WellFormed
    /\ Len(input) = MaxRows
    /\ applied = Parsed
    /\ Len(stderr) = 2
    /\ stderr[1].kind = "InsufficientFunds"
    /\ lastTransaction = applied[3]
    /\ lastResult = Ok
    /\ Len(stdout) > 0

\* --------------------------------------------------------------------- C19
\* C19, as stated: a row that fails to decode is reported and skipped; main
\* goes on, so it never returns the error, it has applied every transaction
\* among the rows it has passed, and its snapshot follows the application of
\* every transaction of the input.
IsTransaction(r) == r # ParsingFailure

C19_DecodeFailureSkipsRow ==
    /\ pc # "failed"
    /\ applied = SelectSeq(SubSeq(Parsed, 1, pos - 1), IsTransaction)
    /\ pc = "done" => applied = SelectSeq(Parsed, IsTransaction)

\* C19, amended: a row that fails to decode ends the run. On an input with
\* such a row main applies the transactions of the rows before the first
\* one, in order, then returns the error, which is reported; it applies no
\* later row and writes no snapshot.
FirstFailure == CHOOSE i \in DOMAIN input :
                    /\ parse(input[i]) = ParsingFailure
                    /\ \A j \in 1..(i - 1) : parse(input[j]) # ParsingFailure

C19_DecodeFailureEndsRun ==
    /\ ~WellFormed
          => /\ pc # "done"
             /\ stdout = <<>>
             /\ pos <= FirstFailure + 1
             /\ applied = SubSeq(Parsed, 1, Len(applied))
             /\ Len(applied) <= FirstFailure - 1
             /\ pos = FirstFailure + 1
                   => /\ pc = "failed"
                      /\ applied = SubSeq(Parsed, 1, FirstFailure - 1)
                      /\ stderr # <<>>
                      /\ stderr[Len(stderr)] = ParsingFailure
    /\ pc = "failed" => (~WellFormed /\ pos = FirstFailure + 1)

\* main returned at the second of three rows, which does not decode: the
\* first row's deposit is in the ledger, the third row is a deposit that
\* was never applied, and nothing was written to stdout
C19_Witness ==
    /\ pc = "failed"
    /\ Len(input) = 3
    /\ parse(input[1]) # ParsingFailure
    /\ parse(input[2]) = ParsingFailure
    /\ input[3].type = "deposit"
    /\ parse(input[3]) # ParsingFailure
    /\ applied = <<parse(input[1])>>
    /\ lastResult = Ok
    /\ \E c \in DOMAIN clients : clients[c].total > 0
    /\ stderr = <<ParsingFailure>>
    /\ stdout = <<>>

\* --------------------------------------------------------------------- C20
\* C20: Payments::apply with a transaction for one account keeps every
\* account the registry had, and leaves every other account as it was
\* (balances, lock and records), whatever the call returned.
C20_OtherAccountsUntouched ==
    Applied
        => /\ DOMAIN previous \subseteq DOMAIN clients
           /\ \A c \in DOMAIN previous :
                 c # lastTransaction.client_id => clients[c] = previous[c]

\* a chargeback locked one account while another account, which holds
\* funds and a record, stayed as it was
C20_Witness ==
    /\ StepType = "Chargeback"
    /\ lastResult = Ok
    /\ After.locked
    /\ \E c \in DOMAIN previous :
          /\ c # lastTransaction.client_id
          /\ previous[c].total > 0
          /\ DOMAIN previous[c].operations # {}
          /\ ~previous[c].locked
          /\ clients[c] = previous[c]

\* --------------------------------------------------------------------- C21
\* C21: take the transactions main has applied and any other arrival order
\* of them that keeps the order of the transactions of each account. Applied
\* in the other order from an empty registry they give the registry main
\* has, the same snapshot rows, and for each transaction the same result.
\* (The first two conjuncts tie main_loop to the run: its registry and its
\* rejections are those of main.)
IsError(r) == r # Ok

Reorderings(stream) ==
    {order \in [DOMAIN stream -> DOMAIN stream] :
        /\ \A i, j \in DOMAIN stream : order[i] = order[j] => i = j
        /\ \A i, j \in DOMAIN stream :
              (i < j /\ stream[order[i]].client_id = stream[order[j]].client_id)
                  => order[i] < order[j]}

C21_CrossAccountOrderIrrelevant ==
    /\ main_loop(applied).clients = clients
    /\ SelectSeq(main_loop(applied).results, IsError) = SelectSeq(stderr, IsTransaction)
    /\ \A order \in Reorderings(applied) :
          LET reordered == [k \in DOMAIN applied |-> applied[order[k]]]
              run == main_loop(reordered)
          IN  /\ run.clients = clients
              /\ \A k \in DOMAIN applied :
                    run.results[k] = main_loop(applied).results[order[k]]
              /\ \A o1 \in ValuesOrders(clients), o2 \in ValuesOrders(run.clients) :
                    Payments_serialize(run.clients, o2) = Payments_serialize(clients, o1)

\* main is done with three transactions, the second for another account
\* than the first and the third, one of them rejected: the order that puts
\* the second one first is another arrival order of them
C21_Witness ==
    /\ pc = "done"
    /\ Len(applied) = 3
    /\ applied[1].client_id = applied[3].client_id
    /\ applied[2].client_id # applied[1].client_id
    /\ applied[2].op.id = applied[1].op.id
    /\ Cardinality(Reorderings(applied)) = 3
    /\ Len(stderr) = 1
    /\ Len(stdout) = 2
    /\ stdout[1].total > 0
    /\ stdout[2].total > 0

\* --------------------------------------------------------------------- C22
\* C22: across every applied operation, every record the account had is
\* still there with the same identifier and the same signed amount; its
\* state is the same or has moved New -> InDispute, InDispute -> Resolved or
\* InDispute -> Chargedback; a Resolved or Chargedback record keeps its
\* state; and a record that is new in the account is in state New.
C22_LifecycleOnlyForward ==
    Applied
        => /\ \A t \in DOMAIN Before.operations :
                 /\ t \in DOMAIN After.operations
                 /\ After.operations[t].id = Before.operations[t].id
                 /\ After.operations[t].amount = Before.operations[t].amount
                 /\ LET from == Before.operations[t].state
                        to == After.operations[t].state
                    IN  /\ \/ to = from
                           \/ from = "New" /\ to = "InDispute"
                           \/ from = "InDispute" /\ to = "Resolved"
                           \/ from = "InDispute" /\ to = "Chargedback"
                        /\ from \in {"Resolved", "Chargedback"} => to = from
           /\ \A t \in DOMAIN After.operations \ DOMAIN Before.operations :
                 /\ t = StepOp.id
                 /\ After.operations[t].state = "New"

\* a Dispute of a record that was resolved before is rejected and the
\* record stays Resolved, next to a second record of the account
C22_Witness ==
    /\ StepType = "Dispute"
    /\ ~Before.locked
    /\ StepOp.id \in DOMAIN Before.operations
    /\ Before.operations[StepOp.id].state = "Resolved"
    /\ Before.available >= Before.operations[StepOp.id].amount
    /\ lastResult = InvalidTransactionStateChange(StepOp.id, "Resolved", "InDispute")
    /\ After.operations[StepOp.id].state = "Resolved"
    /\ Cardinality(DOMAIN After.operations) = 2

\* --------------------------------------------------------------------- C23
\* C23: on an unlocked account, a Withdrawal whose identifier has a record
\* and whose amount is above available fails with DuplicatedTransaction; a
\* Dispute of a record that is not New and whose signed amount is above
\* available fails with FailedDisputeNotEnoughFunds; a Dispute, Resolve or
\* Chargeback of an identifier without a record fails with
\* TransactionNotFound.
C23_ErrorPrecedence ==
    /\ (/\ StepType = "Withdrawal"
         /\ ~Before.locked
         /\ StepOp.id \in DOMAIN Before.operations
         /\ Before.available < StepOp.kind.amount)
          => lastResult = DuplicatedTransaction(StepOp.id)
    /\ (/\ StepType = "Dispute"
         /\ ~Before.locked
         /\ StepOp.id \in DOMAIN Before.operations
         /\ Before.operations[StepOp.id].state # "New"
         /\ Before.available < Before.operations[StepOp.id].amount)
          => lastResult = FailedDisputeNotEnoughFunds(StepOp.id)
    /\ (/\ StepType \in {"Dispute", "Resolve", "Chargeback"}
         /\ ~Before.locked
         /\ StepOp.id \notin DOMAIN Before.operations)
          => lastResult = TransactionNotFound(StepOp.id)

\* a Dispute of a Resolved record whose amount the available balance does
\* not cover fails with FailedDisputeNotEnoughFunds, not with the
\* state-transition error
C23_Witness ==
    /\ StepType = "Dispute"
    /\ ~Before.locked
    /\ StepOp.id \in DOMAIN Before.operations
    /\ Before.operations[StepOp.id].state = "Resolved"
    /\ Before.operations[StepOp.id].amount > 0
    /\ Before.available >= 0
    /\ Before.available < Before.operations[StepOp.id].amount
    /\ lastResult = FailedDisputeNotEnoughFunds(StepOp.id)

\* --------------------------------------------------------------------- C24
\* C24: when every Deposit and Withdrawal amount is above zero, available
\* is zero or above in every account in every reachable state.
C24_AvailableNeverNegative ==
    \A c \in DOMAIN clients : clients[c].available >= 0

\* --------------------------------------------------------------------- C25
\* C25: in every reachable state the total of every account is the sum of
\* the signed amounts of its records that are not Chargedback.
RECURSIVE SumOfAmounts(_, _)
SumOfAmounts(operations, ids) ==
    IF ids = {}
      THEN 0
      ELSE LET t == CHOOSE x \in ids : TRUE
           IN  operations[t].amount + SumOfAmounts(operations, ids \ {t})

NotChargedback(cl) == {t \in DOMAIN cl.operations : cl.operations[t].state # "Chargedback"}

C25_TotalIsSumOfRecords ==
    \A c \in DOMAIN clients :
        clients[c].total = SumOfAmounts(clients[c].operations, NotChargedback(clients[c]))

\* a chargeback went through on an account with two records of amounts
\* other than zero; the other record is in dispute, and the total is its
\* amount
C25_Witness ==
    /\ StepType = "Chargeback"
    /\ lastResult = Ok
    /\ After.operations[StepOp.id].amount # 0
    /\ \E t \in DOMAIN After.operations :
          /\ t # StepOp.id
          /\ After.operations[t].state = "InDispute"
          /\ After.operations[t].amount # 0
          /\ After.total = After.operations[t].amount
          /\ NotChargedback(After) = {t}

\* --------------------------------------------------------------------- C26
\* C26: in every reachable state an account is locked exactly when one of
\* its records is Chargedback; an account that is not locked has no
\* Chargedback record and no account has two.
Chargedbacks(cl) == {t \in DOMAIN cl.operations : cl.operations[t].state = "Chargedback"}

C26_LockedIffOneChargedback ==
    \A c \in DOMAIN clients :
        /\ clients[c].locked <=> Cardinality(Chargedbacks(clients[c])) = 1
        /\ ~clients[c].locked => Chargedbacks(clients[c]) = {}
        /\ Cardinality(Chargedbacks(clients[c])) <= 1

\* a Chargeback of a second record is turned away by the lock that the
\* chargeback of the first record set
C26_Witness ==
    /\ StepType = "Chargeback"
    /\ lastResult = AccountLocked(StepOp.id)
    /\ StepOp.id \in DOMAIN After.operations
    /\ After.operations[StepOp.id].state # "Chargedback"
    /\ After.locked
    /\ Cardinality(Chargedbacks(After)) = 1

====
